---------------------------- MODULE Spec2Model ----------------------------
(***************************************************************************)
(* Liquidity-pool yield calculator (src/streamlit.py).                     *)
(*                                                                         *)
(* calculate_yield is a pure arithmetic function; the script around it     *)
(* reads three inputs, calls it once, and then calls it again in three     *)
(* sensitivity loops.  Numbers are modelled as exact rationals             *)
(* [n |-> numerator, d |-> denominator] in lowest terms with d > 0; the    *)
(* value with d = 0 stands for a raised ZeroDivisionError and propagates   *)
(* through every later operation.  Python evaluates the same expressions   *)
(* in binary64, so an equality stated here holds of the running code up to *)
(* floating-point rounding.                                                *)
(***************************************************************************)
EXTENDS Integers, Sequences, FiniteSets, TLC

VARIABLES total_pool_size, daily_volume, percent_in_range,
          results, range_results, volume_results, range_chart_data, pc

vars == <<total_pool_size, daily_volume, percent_in_range,
          results, range_results, volume_results, range_chart_data, pc>>

---------------------------------------------------------------------------
(* Bounds of the model.                                                    *)

\* pool sizes k * PoolInputStep, k in 0..MaxPoolK, are explored besides the default
MaxPoolK == 1
\* volumes k * VolumeInputStep, k in 0..MaxVolK, are explored besides the default
MaxVolK == 1
\* out-of-domain percentages reach MaxPctK + 1 steps of 25 past each end of [0,100]
MaxPctK == 1

---------------------------------------------------------------------------
(* Exact rational arithmetic standing for Python's float operators.        *)

RECURSIVE GCD(_, _)
GCD(a, b) == IF b = 0 THEN a ELSE GCD(b, a % b)

Abs(i) == IF i < 0 THEN -i ELSE i

Norm(n, d) ==
    LET g == GCD(Abs(n), d)
    IN  [n |-> n \div g, d |-> d \div g]

R(i) == [n |-> i, d |-> 1]

ZeroDivisionError == [n |-> 0, d |-> 0]

Raised(x) == x.d = 0

Add(x, y) ==
    IF Raised(x) \/ Raised(y) THEN ZeroDivisionError
    ELSE LET g == GCD(x.d, y.d)
         IN  Norm(x.n * (y.d \div g) + y.n * (x.d \div g), (x.d \div g) * y.d)

Neg(x) == [n |-> -x.n, d |-> x.d]

Sub(x, y) == Add(x, Neg(y))

Mul(x, y) ==
    IF Raised(x) \/ Raised(y) THEN ZeroDivisionError
    ELSE LET g1 == GCD(Abs(x.n), y.d)
             g2 == GCD(Abs(y.n), x.d)
         IN  [n |-> (x.n \div g1) * (y.n \div g2),
              d |-> (x.d \div g2) * (y.d \div g1)]

Div(x, y) ==
    IF Raised(x) \/ Raised(y) \/ y.n = 0 THEN ZeroDivisionError
    ELSE Mul(x, IF y.n > 0 THEN [n |-> y.d, d |-> y.n]
                ELSE [n |-> -y.d, d |-> -y.n])

Floor(x) == x.n \div x.d

Positive(x) == ~Raised(x) /\ x.n > 0

\* nearest integer, ties to even: the rounding of a fixed-point format
RoundHalfEven(x) ==
    LET f == Floor(x)
        r == x.n % x.d
    IN  IF 2 * r < x.d THEN f
        ELSE IF 2 * r > x.d THEN f + 1
        ELSE IF f % 2 = 0 THEN f ELSE f + 1

\* f"{x:,.0f}": the digits of x rounded to a whole number
Format0f(x) == RoundHalfEven(x)

\* f"{x:.1f}": the digits of x rounded to tenths, kept as a count of tenths
Format1f(x) == RoundHalfEven(Mul(x, R(10)))

---------------------------------------------------------------------------
(* calculate_yield, line by line.                                          *)

\* faulty variant: a fee tier of 0.3%
fee_tier_halved == [n |-> 3, d |-> 1000]
fee_tier == [n |-> 3, d |-> 500]

our_total_position_percent == [n |-> 17, d |-> 25]

our_total_position_of(tps) == Mul(tps, our_total_position_percent)

\* faulty variant: the whole position counted as in range
our_in_range_position_ignoring_percent(otp, pir) == otp
\* faulty variant: the out-of-range fraction taken for the in-range one
our_in_range_position_complement(otp, pir) ==
    Mul(otp, Div(Sub(R(100), pir), R(100)))
our_in_range_position_of(otp, pir) == Mul(otp, Div(pir, R(100)))

\* faulty variant: the others given our share of the pool
others_position_same_share(tps) == Mul(tps, our_total_position_percent)
others_position_of(tps) == Mul(tps, Sub(R(1), our_total_position_percent))

total_in_range_of(others, inr) == Add(others, inr)

\* faulty variant: the volume left out of the product
daily_fees_flat(dv) == fee_tier
daily_fees_of(dv) == Mul(dv, fee_tier)

annual_fees_of(daily_fees) == Mul(daily_fees, R(365))

\* faulty variant: the division without its guard
our_share_unguarded(inr, tir) == Div(inr, tir)
our_share_of(inr, tir) == IF Positive(tir) THEN Div(inr, tir) ELSE R(0)

our_annual_yield_of(annual_fees, our_share) == Mul(annual_fees, our_share)

our_monthly_yield_of(our_annual_yield) == Div(our_annual_yield, R(12))

\* faulty variant: the guard written as != 0
our_apr_nonzero_guard(our_annual_yield, inr) ==
    IF inr.n # 0 THEN Mul(Div(our_annual_yield, inr), R(100)) ELSE R(0)
\* faulty variant: the factor 100 left out
our_apr_as_fraction(our_annual_yield, inr) ==
    IF Positive(inr) THEN Div(our_annual_yield, inr) ELSE R(0)
our_apr_of(our_annual_yield, inr) ==
    IF Positive(inr) THEN Mul(Div(our_annual_yield, inr), R(100)) ELSE R(0)

\* the 'our_share' entry of the returned dictionary
\* faulty variant: the share returned as a ratio, not a percentage
returned_share_as_ratio(our_share) == our_share
returned_share(our_share) == Mul(our_share, R(100))

calculate_yield(tps, dv, pir) ==
    LET our_total_position    == our_total_position_of(R(tps))
        our_in_range_position == our_in_range_position_of(our_total_position, R(pir))
        others_position       == others_position_of(R(tps))
        total_in_range        == total_in_range_of(others_position, our_in_range_position)
        daily_fees            == daily_fees_of(R(dv))
        annual_fees           == annual_fees_of(daily_fees)
        our_share             == our_share_of(our_in_range_position, total_in_range)
        our_annual_yield      == our_annual_yield_of(annual_fees, our_share)
        our_monthly_yield     == our_monthly_yield_of(our_annual_yield)
        our_apr               == our_apr_of(our_annual_yield, our_in_range_position)
    IN  [our_total_position        |-> our_total_position,
         our_in_range_position     |-> our_in_range_position,
         our_out_of_range_position |-> Sub(our_total_position, our_in_range_position),
         total_in_range            |-> total_in_range,
         daily_fees                |-> daily_fees,
         annual_fees               |-> annual_fees,
         our_share                 |-> returned_share(our_share),
         our_annual_yield          |-> our_annual_yield,
         our_monthly_yield         |-> our_monthly_yield,
         our_apr                   |-> our_apr]

\* the call ended in an exception instead of returning
Raises(r) == \E f \in DOMAIN r : Raised(r[f])

---------------------------------------------------------------------------
(* The script: inputs, the call of line 81 and the three sweeps.           *)

PoolInputStep == 1000
DefaultPool == 147000
VolumeInputStep == 1000
DefaultVolume == 100000
PercentStep == 5
MaxPercent == 100

\* values the three input widgets can return
PoolSizes == {k * PoolInputStep : k \in 0..MaxPoolK} \cup {DefaultPool}
Volumes   == {k * VolumeInputStep : k \in 0..MaxVolK} \cup {DefaultVolume}
Percents  == {k * PercentStep : k \in 0..(MaxPercent \div PercentStep)}

\* arguments a caller other than the script may pass to calculate_yield
AnyPoolSizes == {k * PoolInputStep : k \in -(MaxPoolK + 1)..(MaxPoolK + 1)} \cup {DefaultPool}
AnyVolumes   == {k * VolumeInputStep : k \in -1..(MaxVolK + 1)} \cup {DefaultVolume}
AnyPercents  == {k * 25 : k \in -(MaxPctK + 1)..(5 + MaxPctK)}

range_percentages == <<0, 25, 50, 75, 100>>

volume_range == <<25000, 50000, 100000, 150000, 200000, 300000>>

\* range(0, 101, 5)
chart_percentages == [i \in 1..21 |-> 5 * (i - 1)]

range_row(pct, result) ==
    ("In-Range %" :> pct) @@
    ("Monthly Yield" :> Format0f(result.our_monthly_yield)) @@
    ("APR" :> Format1f(result.our_apr))

volume_row(vol, result) ==
    ("Daily Volume" :> vol) @@
    ("Monthly Yield" :> Format0f(result.our_monthly_yield)) @@
    ("APR" :> Format1f(result.our_apr))

chart_row(pct, result) ==
    ("In-Range Percentage" :> pct) @@
    ("Monthly Yield" :> result.our_monthly_yield) @@
    ("APR" :> result.our_apr)

Init ==
    /\ total_pool_size \in PoolSizes
    /\ daily_volume \in Volumes
    /\ percent_in_range \in Percents
    /\ results = <<>>
    /\ range_results = <<>>
    /\ volume_results = <<>>
    /\ range_chart_data = <<>>
    /\ pc = "calculate"

InitAny ==
    /\ total_pool_size \in AnyPoolSizes
    /\ daily_volume \in AnyVolumes
    /\ percent_in_range \in AnyPercents
    /\ results = <<>>
    /\ range_results = <<>>
    /\ volume_results = <<>>
    /\ range_chart_data = <<>>
    /\ pc = "calculate"

\* line 81
Calculate ==
    /\ pc = "calculate"
    /\ LET r == calculate_yield(total_pool_size, daily_volume, percent_in_range)
       IN  IF Raises(r)
           THEN pc' = "ZeroDivisionError" /\ UNCHANGED results
           ELSE results' = r /\ pc' = "range_sweep"
    /\ UNCHANGED <<total_pool_size, daily_volume, percent_in_range,
                   range_results, volume_results, range_chart_data>>

\* faulty variant: each row inserted at the front of range_results
RangeStepPrepend ==
    /\ pc = "range_sweep"
    /\ LET pct    == range_percentages[Len(range_results) + 1]
           result == calculate_yield(total_pool_size, daily_volume, pct)
       IN  /\ range_results' = <<range_row(pct, result)>> \o range_results
           /\ pc' = IF Len(range_results) + 1 = Len(range_percentages)
                    THEN "volume_sweep" ELSE "range_sweep"
    /\ UNCHANGED <<total_pool_size, daily_volume, percent_in_range, results,
                   volume_results, range_chart_data>>

\* one iteration of the loop of lines 193-199
RangeStep ==
    /\ pc = "range_sweep"
    /\ LET pct    == range_percentages[Len(range_results) + 1]
           result == calculate_yield(total_pool_size, daily_volume, pct)
       IN  IF Raises(result)
           THEN pc' = "ZeroDivisionError" /\ UNCHANGED range_results
           ELSE /\ range_results' = Append(range_results, range_row(pct, result))
                /\ pc' = IF Len(range_results) + 1 = Len(range_percentages)
                         THEN "volume_sweep" ELSE "range_sweep"
    /\ UNCHANGED <<total_pool_size, daily_volume, percent_in_range, results,
                   volume_results, range_chart_data>>

\* one iteration of the loop of lines 209-215
VolumeStep ==
    /\ pc = "volume_sweep"
    /\ LET vol    == volume_range[Len(volume_results) + 1]
           result == calculate_yield(total_pool_size, vol, percent_in_range)
       IN  IF Raises(result)
           THEN pc' = "ZeroDivisionError" /\ UNCHANGED volume_results
           ELSE /\ volume_results' = Append(volume_results, volume_row(vol, result))
                /\ pc' = IF Len(volume_results) + 1 = Len(volume_range)
                         THEN "chart_sweep" ELSE "volume_sweep"
    /\ UNCHANGED <<total_pool_size, daily_volume, percent_in_range, results,
                   range_results, range_chart_data>>

\* one iteration of the loop of lines 225-231
ChartStep ==
    /\ pc = "chart_sweep"
    /\ LET pct    == chart_percentages[Len(range_chart_data) + 1]
           result == calculate_yield(total_pool_size, daily_volume, pct)
       IN  IF Raises(result)
           THEN pc' = "ZeroDivisionError" /\ UNCHANGED range_chart_data
           ELSE /\ range_chart_data' = Append(range_chart_data, chart_row(pct, result))
                /\ pc' = IF Len(range_chart_data) + 1 = Len(chart_percentages)
                         THEN "done" ELSE "chart_sweep"
    /\ UNCHANGED <<total_pool_size, daily_volume, percent_in_range, results,
                   range_results, volume_results>>

Next == Calculate \/ RangeStep \/ VolumeStep \/ ChartStep

Spec == Init /\ [][Next]_vars

\* calculate_yield called on its own, with arguments the widgets would refuse
NextAny == Calculate

SpecAny == InitAny /\ [][NextAny]_vars

TypeOK ==
    /\ pc \in {"calculate", "range_sweep", "volume_sweep", "chart_sweep",
               "done", "ZeroDivisionError"}
    /\ Len(range_results) <= Len(range_percentages)
    /\ Len(volume_results) <= Len(volume_range)
    /\ Len(range_chart_data) <= Len(chart_percentages)

---------------------------------------------------------------------------
(* Properties.                                                             *)

\* line 81 has returned: results holds the dictionary of lines 26-37
Returned == pc \notin {"calculate", "ZeroDivisionError"}

\* x rounded to k decimals, as a count of units of 10^-k
RoundTo(x, k) == RoundHalfEven(Mul(x, R(10 ^ k)))

\* a / b, and 0 when b is exactly 0
RatioOrZero(a, b) == IF b.n = 0 THEN R(0) ELSE Div(a, b)

\* x < y, compared through integer parts and then reciprocal fractional
\* parts, so that no cross product is formed
RECURSIVE Less(_, _)
Less(x, y) ==
    LET fx == Floor(x)
        fy == Floor(y)
        rx == x.n % x.d
        ry == y.n % y.d
    IN  IF fx # fy THEN fx < fy
        ELSE IF rx = 0 THEN ry > 0
        ELSE IF ry = 0 THEN FALSE
        ELSE Less([n |-> y.d, d |-> ry], [n |-> x.d, d |-> rx])

LessEq(x, y) == x = y \/ Less(x, y)

ExampleInputs ==
    /\ total_pool_size = 147000
    /\ daily_volume = 100000
    /\ percent_in_range = 100

ExamplePositions ==
    /\ RoundTo(results.our_total_position, 0) = 99960
    /\ RoundTo(Sub(results.total_in_range, results.our_in_range_position), 0) = 47040
    /\ RoundTo(results.total_in_range, 0) = 147000
    /\ RoundTo(results.daily_fees, 0) = 600
    /\ RoundTo(results.annual_fees, 0) = 219000
    /\ RoundTo(results.our_share, 1) = 680
    /\ results.our_monthly_yield = Div(results.our_annual_yield, R(12))

\* C1 as stated: for inputs (147000, 100000, 100) the breakdown is
\* 99960 / 47040 / 147000 / 600 / 219000 / 68.0% and our_annual_yield is
\* 148988.57, our_monthly_yield 12415.71, our_apr 149.03, each to its decimals.
C1_ExampleAsStated ==
    (Returned /\ ExampleInputs) =>
        /\ ExamplePositions
        /\ RoundTo(results.our_annual_yield, 2) = 14898857
        /\ RoundTo(results.our_monthly_yield, 2) = 1241571
        /\ RoundTo(results.our_apr, 2) = 14903

\* C1 amended: for inputs (147000, 100000, 100) the positions, fees and share
\* are as stated, and our_annual_yield is 148920.00, our_monthly_yield is
\* 12410.00 (= our_annual_yield / 12) and our_apr is 148.98.
C1_Example ==
    (Returned /\ ExampleInputs) =>
        /\ ExamplePositions
        /\ RoundTo(results.our_annual_yield, 2) = 14892000
        /\ RoundTo(results.our_monthly_yield, 2) = 1241000
        /\ RoundTo(results.our_apr, 2) = 14898

C1_Witness ==
    /\ Returned
    /\ ExampleInputs
    /\ results.our_annual_yield = R(148920)

\* C2 as stated: the returned our_share is the ratio our_in_range_position /
\* total_in_range (0 when total_in_range = 0), lies in [0,1], and
\* our_annual_yield = annual_fees * our_share on the returned fields.
C2_ShareIsRatio ==
    Returned =>
        /\ results.our_share =
               RatioOrZero(results.our_in_range_position, results.total_in_range)
        /\ LessEq(R(0), results.our_share)
        /\ LessEq(results.our_share, R(1))
        /\ results.our_annual_yield = Mul(results.annual_fees, results.our_share)

\* C2 amended: the returned our_share is 100 times that ratio (a percentage),
\* lies in [0,100], and our_annual_yield = annual_fees * our_share / 100.
C2_ShareIsPercent ==
    Returned =>
        /\ results.our_share =
               Mul(R(100), RatioOrZero(results.our_in_range_position,
                                       results.total_in_range))
        /\ LessEq(R(0), results.our_share)
        /\ LessEq(results.our_share, R(100))
        /\ results.our_annual_yield =
               Mul(results.annual_fees, Div(results.our_share, R(100)))

C2_Witness ==
    /\ Returned
    /\ results.our_share = R(68)
    /\ Positive(results.our_annual_yield)

\* C3: with total_pool_size = 0 no call raises, and the breakdown has
\* total_in_range = our_share = our_apr = our_annual_yield = 0 while
\* daily_fees = daily_volume * 0.006 and annual_fees = daily_fees * 365.
C3_EmptyPool ==
    total_pool_size = 0 =>
        /\ pc # "ZeroDivisionError"
        /\ Returned =>
            /\ results.total_in_range = R(0)
            /\ results.our_share = R(0)
            /\ results.our_apr = R(0)
            /\ results.our_annual_yield = R(0)
            /\ results.daily_fees = Norm(daily_volume * 6, 1000)
            /\ results.annual_fees = Norm(daily_volume * 6 * 365, 1000)

C3_Witness ==
    /\ pc = "done"
    /\ total_pool_size = 0
    /\ percent_in_range > 0
    /\ Positive(results.annual_fees)

\* C4: percent_in_range = 0 gives our_in_range_position = our_share = our_apr
\* = our_annual_yield = 0 and total_in_range = others_position, which is
\* 47040 for total_pool_size = 147000.
C4_NothingInRange ==
    (Returned /\ percent_in_range = 0) =>
        /\ results.our_in_range_position = R(0)
        /\ results.our_share = R(0)
        /\ results.our_apr = R(0)
        /\ results.our_annual_yield = R(0)
        /\ results.total_in_range = Norm(total_pool_size * 32, 100)
        /\ total_pool_size = 147000 => results.total_in_range = R(47040)

C4_Witness ==
    /\ Returned
    /\ percent_in_range = 0
    /\ total_pool_size = 147000
    /\ daily_volume > 0
    /\ results.total_in_range = R(47040)

PositionAccounting ==
    /\ Add(results.our_in_range_position, results.our_out_of_range_position) =
           results.our_total_position
    /\ Add(results.our_total_position,
           Sub(results.total_in_range, results.our_in_range_position)) =
           R(total_pool_size)
    /\ percent_in_range = 100 => results.our_out_of_range_position = R(0)

\* C5 as stated: the returned breakdown carries our_in_range_position,
\* our_out_of_range_position, our_total_position and others_position, with
\* in + out = total position, total position + others = pool, and out = 0 at 100%.
C5_CarriesOthersPosition ==
    Returned =>
        /\ {"our_in_range_position", "our_out_of_range_position",
            "our_total_position", "others_position"} \subseteq DOMAIN results
        /\ PositionAccounting

\* C5 amended: the returned breakdown carries our_in_range_position,
\* our_out_of_range_position and our_total_position but no others_position;
\* with others_position = total_in_range - our_in_range_position (line 16),
\* in + out = total position, total position + others = pool, out = 0 at 100%.
C5_PositionAccounting ==
    Returned =>
        /\ {"our_in_range_position", "our_out_of_range_position",
            "our_total_position", "total_in_range"} \subseteq DOMAIN results
        /\ "others_position" \notin DOMAIN results
        /\ PositionAccounting

C5_Witness ==
    /\ Returned
    /\ total_pool_size > 0
    /\ percent_in_range = 100
    /\ results.our_out_of_range_position = R(0)
    /\ Positive(results.our_total_position)

\* the yield at the state's inputs is below the yield at every larger percentage
YieldGrowsWithPercent ==
    \A p2 \in Percents :
        p2 > percent_in_range =>
            Less(results.our_annual_yield,
                 calculate_yield(total_pool_size, daily_volume, p2).our_annual_yield)

\* C6 as stated: for a non-empty pool, p1 < p2 in [0,100] gives
\* our_annual_yield(p1) < our_annual_yield(p2), whatever the daily volume.
C6_MonotoneAnyVolume ==
    (Returned /\ total_pool_size > 0) => YieldGrowsWithPercent

\* C6 amended: for a non-empty pool and daily_volume > 0, p1 < p2 in [0,100]
\* gives our_annual_yield(p1) < our_annual_yield(p2).
C6_MonotoneInPercent ==
    (Returned /\ total_pool_size > 0 /\ daily_volume > 0) => YieldGrowsWithPercent

C6_Witness ==
    /\ Returned
    /\ total_pool_size > 0
    /\ daily_volume > 0
    /\ percent_in_range = 50
    /\ Less(results.our_annual_yield,
            calculate_yield(total_pool_size, daily_volume, 55).our_annual_yield)

SweptVolumes == Volumes \cup {volume_range[i] : i \in 1..Len(volume_range)}

\* C7: when our_in_range_position > 0, v1 < v2 gives
\* our_annual_yield(v1) < our_annual_yield(v2).
C7_MonotoneInVolume ==
    (Returned /\ Positive(results.our_in_range_position)) =>
        \A v2 \in SweptVolumes :
            v2 > daily_volume =>
                Less(results.our_annual_yield,
                     calculate_yield(total_pool_size, v2,
                                     percent_in_range).our_annual_yield)

C7_Witness ==
    /\ Returned
    /\ Positive(results.our_in_range_position)
    /\ daily_volume = 0
    /\ results.our_annual_yield = R(0)
    /\ Positive(calculate_yield(total_pool_size, 1000,
                                percent_in_range).our_annual_yield)

\* no call made so far has raised
NoException == pc # "ZeroDivisionError"

\* C8 as stated: for any arguments no exception is raised, and 0 replaces a
\* ratio only when its divisor is exactly 0: total_in_range # 0 (also negative)
\* gives our_annual_yield = annual_fees * our_in_range_position / total_in_range,
\* our_in_range_position # 0 (also negative) gives
\* our_apr = our_annual_yield / our_in_range_position * 100.
C8_ZeroOnlyAtZeroDivisor ==
    /\ NoException
    /\ Returned =>
        /\ results.total_in_range.n # 0 =>
               results.our_annual_yield =
                   Mul(results.annual_fees,
                       Div(results.our_in_range_position, results.total_in_range))
        /\ results.our_in_range_position.n # 0 =>
               results.our_apr =
                   Mul(Div(results.our_annual_yield, results.our_in_range_position),
                       R(100))

\* C8 amended: for any arguments no exception is raised, and 0 replaces a ratio
\* whenever its divisor is not strictly positive: total_in_range > 0 gives
\* our_annual_yield = annual_fees * our_in_range_position / total_in_range and
\* total_in_range <= 0 gives our_share = our_annual_yield = 0;
\* our_in_range_position > 0 gives our_apr = our_annual_yield /
\* our_in_range_position * 100 and our_in_range_position <= 0 gives our_apr = 0.
C8_ZeroAtNonPositiveDivisor ==
    /\ NoException
    /\ Returned =>
        /\ IF results.total_in_range.n > 0
           THEN results.our_annual_yield =
                    Mul(results.annual_fees,
                        Div(results.our_in_range_position, results.total_in_range))
           ELSE results.our_share = R(0) /\ results.our_annual_yield = R(0)
        /\ IF results.our_in_range_position.n > 0
           THEN results.our_apr =
                    Mul(Div(results.our_annual_yield, results.our_in_range_position),
                        R(100))
           ELSE results.our_apr = R(0)

C8_Witness ==
    /\ Returned
    /\ total_pool_size < 0
    /\ daily_volume > 0
    /\ results.total_in_range.n < 0
    /\ results.our_in_range_position.n < 0
    /\ results.our_annual_yield = R(0)
    /\ results.our_apr = R(0)

\* C9: each sweep holds, at every point of its loop, one row per value visited
\* so far, in the order of the swept sequence, the i-th row being built from
\* calculate_yield on the i-th swept value and the base inputs; a finished
\* sweep holds exactly one row per swept value.
C9_Sweeps ==
    /\ Len(range_results) <= Len(range_percentages)
    /\ \A i \in 1..Len(range_results) :
           range_results[i] =
               range_row(range_percentages[i],
                         calculate_yield(total_pool_size, daily_volume,
                                         range_percentages[i]))
    /\ Len(volume_results) <= Len(volume_range)
    /\ \A i \in 1..Len(volume_results) :
           volume_results[i] =
               volume_row(volume_range[i],
                          calculate_yield(total_pool_size, volume_range[i],
                                          percent_in_range))
    /\ Len(range_chart_data) <= Len(chart_percentages)
    /\ \A i \in 1..Len(range_chart_data) :
           range_chart_data[i] =
               chart_row(chart_percentages[i],
                         calculate_yield(total_pool_size, daily_volume,
                                         chart_percentages[i]))
    /\ pc \in {"volume_sweep", "chart_sweep", "done"} =>
           Len(range_results) = Len(range_percentages)
    /\ pc \in {"chart_sweep", "done"} => Len(volume_results) = Len(volume_range)
    /\ pc = "done" => Len(range_chart_data) = Len(chart_percentages)
    /\ pc \in {"calculate", "range_sweep"} => volume_results = <<>>
    /\ pc \in {"calculate", "range_sweep", "volume_sweep"} => range_chart_data = <<>>

C9_Witness ==
    /\ pc = "done"
    /\ total_pool_size > 0
    /\ daily_volume > 0
    /\ Len(range_results) = 5
    /\ Len(volume_results) = 6
    /\ Len(range_chart_data) = 21
    /\ range_results[2]["In-Range %"] = 25
    /\ volume_results[6]["Daily Volume"] = 300000
    /\ range_chart_data[21]["In-Range Percentage"] = 100
    /\ range_results[1]["Monthly Yield"] < range_results[5]["Monthly Yield"]

\* C10: whenever our_in_range_position > 0, our_apr * total_in_range =
\* annual_fees * 100; so for total_pool_size > 0 and daily_volume > 0 our_apr
\* strictly decreases in percent_in_range over (0,100] while our_annual_yield
\* increases, and our_apr is 0 at percent_in_range = 0.
C10_AprDilution ==
    Returned =>
        /\ Positive(results.our_in_range_position) =>
               Mul(results.our_apr, results.total_in_range) =
                   Mul(results.annual_fees, R(100))
        /\ (total_pool_size > 0 /\ daily_volume > 0) =>
               \A p2 \in Percents :
                   p2 > percent_in_range =>
                       LET later == calculate_yield(total_pool_size, daily_volume, p2)
                       IN  /\ Less(results.our_annual_yield, later.our_annual_yield)
                           /\ IF percent_in_range > 0
                              THEN Less(later.our_apr, results.our_apr)
                              ELSE results.our_apr = R(0) /\ Positive(later.our_apr)

C10_Witness ==
    /\ Returned
    /\ total_pool_size = 147000
    /\ daily_volume = 100000
    /\ percent_in_range = 50
    /\ Less(calculate_yield(total_pool_size, daily_volume, 100).our_apr,
            results.our_apr)
    /\ Mul(results.our_apr, results.total_in_range) = R(21900000)

====
